---- MODULE Spec2Model ----
(***************************************************************************)
(* A model of the code review tool of src/src/main.rs: main loads the      *)
(* settings, walks the working directory (tokenize_codebase), runs         *)
(* `git diff` (get_git_diff), builds a prompt and posts it to the          *)
(* inference endpoint (review_changes), and prints the review.             *)
(*                                                                         *)
(* The world the program runs in (configuration files, directory tree,     *)
(* git subprocess, HTTP server, environment) is part of the state, fixed   *)
(* by the initial state; the only nondeterminism left to the program is    *)
(* the iteration order of the HashMap.                                     *)
(*                                                                         *)
(* Text is a TLA+ string.  A byte vector (a file's content, the stdout of  *)
(* git, an OS file name) is a sequence of chunks: a chunk is a piece of    *)
(* valid UTF-8 text, or one of the bytes 0xFF / 0xFE, which are never      *)
(* valid in UTF-8.                                                         *)
(***************************************************************************)
EXTENDS Integers, Sequences, FiniteSets, TLC

VARIABLES
    pc,         \* position of the run: the next step of main, "done" or "failed"
    args,       \* arguments of the component calls (main's are fixed)
    fs_config,  \* world: the two configuration sources "config", "config.toml"
    fs_tree,    \* world: the directory tree under the root, in walk order
    git,        \* world: behaviour of the git subprocess
    http,       \* world: behaviour of the inference endpoint
    env_debug,  \* world: value of the environment variable DEBUG ("" if unset)
    settings,   \* Settings, then the fields of CodeReviewTool
    codebase,   \* HashMap<String, String>: the snapshot
    diff,       \* String returned by get_git_diff
    spawned,    \* argv of every subprocess launched
    requests,   \* every HTTP POST issued: url and JSON body
    review,     \* String returned by review_changes
    stderr,     \* lines written by eprintln!
    stdout,     \* lines written by println!
    steps,      \* the steps of main executed so far, each with its outcome
    exit        \* result of main: "running", "ok" or "err"

vars == <<pc, args, fs_config, fs_tree, git, http, env_debug, settings, codebase, diff,
          spawned, requests, review, stderr, stdout, steps, exit>>

-----------------------------------------------------------------------------
(* Bounds of the component checks. *)

\* longest response body, in tokens (JSON texts and newlines)
MaxBody == 5
\* most entries in a directory tree
MaxEntries == 3
\* longest standard output of git, in chunks
MaxStdout == 3
\* largest max_files_context
MaxN == 4

-----------------------------------------------------------------------------
(* Result<T, E> *)

Ok(v) == [ok |-> TRUE, val |-> v]
Err(e) == [ok |-> FALSE, err |-> e]

Min(a, b) == IF a <= b THEN a ELSE b

RECURSIVE Concat(_)
\* concatenation of a sequence of strings
Concat(ss) == IF ss = <<>> THEN "" ELSE Head(ss) \o Concat(Tail(ss))

-----------------------------------------------------------------------------
(* Bytes and text *)

InvalidBytes == {"<FF>", "<FE>"}
ReplacementChar == "<U+FFFD>"

\* String::from_utf8
from_utf8(bytes) ==
    IF \E i \in 1..Len(bytes) : bytes[i] \in InvalidBytes
    THEN Err("FromUtf8Error")
    ELSE Ok(Concat(bytes))

\* OsStr::to_string_lossy: every invalid byte becomes U+FFFD
to_string_lossy(os) ==
    Concat([i \in 1..Len(os) |->
              IF os[i] \in InvalidBytes THEN ReplacementChar ELSE os[i]])

RECURSIVE JoinPath(_)
\* Path::to_string_lossy of a path given by its components
JoinPath(comps) ==
    IF comps = <<>> THEN ""
    ELSE IF Len(comps) = 1 THEN to_string_lossy(comps[1])
    ELSE to_string_lossy(comps[1]) \o "/" \o JoinPath(Tail(comps))

\* Path::strip_prefix
strip_prefix(path, base) ==
    IF Len(base) <= Len(path) /\ SubSeq(path, 1, Len(base)) = base
    THEN Ok(SubSeq(path, Len(base) + 1, Len(path)))
    ELSE Err("StripPrefixError")

-----------------------------------------------------------------------------
(* Settings (main.rs 12-26) and the configuration sources (main.rs 172-181) *)

default_ollama_url == "http://localhost:11434"
default_model == "codellama"

DefaultSettings == [ollama_url |-> default_ollama_url, model |-> default_model]

\* A key of a configuration file: absent, or a value of the file's format.
\* A scalar (string, integer, float, boolean) carries its text, which is what
\* deserializing it into a String field gives (`model = 5` gives "5",
\* `model = true` gives "true"); a null, a table or an array has no text.
\* A null is a value of the key (JSON `"model": null`), not an absent key.
NoKey == [kind |-> "absent", s |-> ""]
StrVal(s) == [kind |-> "string", s |-> s]
IntVal(s) == [kind |-> "integer", s |-> s]
FloatVal(s) == [kind |-> "float", s |-> s]
BoolVal(s) == [kind |-> "boolean", s |-> s]
NilVal == [kind |-> "nil", s |-> ""]
TableVal == [kind |-> "table", s |-> ""]
ArrayVal == [kind |-> "array", s |-> ""]

\* the kinds of value that do not deserialize into a String
NotStringLike == {"nil", "table", "array"}

\* a source: no such file, a file that does not parse, or a parsed map
NoFile == [found |-> FALSE, parsed |-> FALSE, ollama_url |-> NoKey, model |-> NoKey]
BadFile == [found |-> TRUE, parsed |-> FALSE, ollama_url |-> NoKey, model |-> NoKey]
GoodFile(u, m) == [found |-> TRUE, parsed |-> TRUE, ollama_url |-> u, model |-> m]

\* File::collect with required(false): a missing file is an empty map, a file
\* that is found and does not parse is an error
collect(src) ==
    IF ~src.found THEN Ok([ollama_url |-> NoKey, model |-> NoKey])
    ELSE IF ~src.parsed THEN Err("FileParse")
    ELSE Ok([ollama_url |-> src.ollama_url, model |-> src.model])

\* a later source overrides the keys it sets
merge(a, b) ==
    [ollama_url |-> IF b.ollama_url.kind = "absent" THEN a.ollama_url ELSE b.ollama_url,
     model |-> IF b.model.kind = "absent" THEN a.model ELSE b.model]

\* Config::builder().add_source(..).add_source(..).build()
build(sources) ==
    LET a == collect(sources[1])
        b == collect(sources[2])
    IN IF ~a.ok THEN a
       ELSE IF ~b.ok THEN b
       ELSE Ok(merge(a.val, b.val))

\* config.try_deserialize::<Settings>() with the serde defaults of the fields:
\* an absent key takes the default, a scalar of any type is coerced to its
\* text, a null, a table or an array is an error
try_deserialize(config) ==
    IF config.ollama_url.kind \in NotStringLike \/ config.model.kind \in NotStringLike
    THEN Err("invalid type")
    ELSE Ok([ollama_url |-> IF config.ollama_url.kind = "absent"
                            THEN default_ollama_url ELSE config.ollama_url.s,
             model |-> IF config.model.kind = "absent"
                       THEN default_model ELSE config.model.s])

\* .unwrap_or_else(|_| Settings { defaults })
settings_or_default(r) == IF r.ok THEN r.val ELSE DefaultSettings

\* Option<T>
Some(v) == [some |-> TRUE, v |-> v]
None == [some |-> FALSE, v |-> ""]
unwrap_or(opt, d) == IF opt.some THEN opt.v ELSE d

\* CodeReviewTool::new
new(ollama_url, model) ==
    [ollama_url |-> unwrap_or(ollama_url, "http://localhost:11434"),
     model |-> unwrap_or(model, "codellama")]

-----------------------------------------------------------------------------
(* The directory tree and tokenize_codebase (main.rs 73-107) *)

\* An entry of the tree: its path relative to the root (a sequence of OS
\* names), its type, whether the ignore rules exclude it, whether the walk
\* can access it, whether it can be opened, and its bytes.
Entry(name, kind, bytes) ==
    [name |-> name,
     file_type |-> IF kind = "dir" THEN "dir" ELSE "file",
     ignored |-> kind = "ignored",
     walk_ok |-> kind # "walk_err",
     open_ok |-> kind # "denied",
     bytes |-> IF kind = "binary" THEN <<"<FF>">>
               ELSE IF kind \in {"text", "ignored"} THEN bytes
               ELSE <<>>]

\* Walk::new(root): the root itself, then every entry the ignore rules keep;
\* an entry the walk cannot access is yielded as an error
Walk(root, tree) ==
    LET kept == SelectSeq(tree, LAMBDA e : ~e.ignored)
    IN <<Ok([path |-> root])>> \o
       [i \in 1..Len(kept) |->
          IF kept[i].walk_ok THEN Ok([path |-> root \o kept[i].name])
          ELSE Err("walk error")]

\* the entry of the tree at a path
Lookup(path, root, tree) ==
    {tree[i] : i \in {j \in 1..Len(tree) : root \o tree[j].name = path}}

\* Path::is_file
is_file(path, root, tree) ==
    \E e \in Lookup(path, root, tree) : e.file_type = "file"

\* fs::read_to_string
read_to_string(path, root, tree) ==
    LET e == CHOOSE x \in Lookup(path, root, tree) : TRUE
    IN IF ~e.open_ok THEN Err("PermissionDenied")
       ELSE IF ~from_utf8(e.bytes).ok THEN Err("InvalidData")
       ELSE from_utf8(e.bytes)

EmptyMap == [k \in {} |-> ""]

\* HashMap::insert
insert(m, k, v) == [x \in DOMAIN m \cup {k} |-> IF x = k THEN v ELSE m[x]]

\* one iteration of the loop of tokenize_codebase (main.rs 77-99)
walk_entry(entry, root, tree, acc) ==
    IF ~entry.ok
    THEN [acc EXCEPT !.stderr =
            Append(@, "Warning: Error accessing path: " \o entry.err)]
    ELSE LET path == entry.val.path IN
         IF ~is_file(path, root, tree) THEN acc
         ELSE LET content == read_to_string(path, root, tree)
                  relative == strip_prefix(path, root)
              IN IF ~content.ok
                 THEN [acc EXCEPT !.stderr =
                         Append(@, "Warning: Could not read file "
                                   \o JoinPath(path) \o ": " \o content.err)]
                 ELSE IF relative.ok
                 THEN [acc EXCEPT !.codebase =
                         insert(@, JoinPath(relative.val), content.val)]
                 ELSE acc

RECURSIVE walk_loop_break_on_error(_, _, _, _)
\* walk_loop with `break` for `continue` at main.rs 90 and 97
walk_loop_break_on_error(entries, root, tree, acc) ==
    IF entries = <<>> THEN acc
    ELSE LET acc2 == walk_entry(Head(entries), root, tree, acc) IN
         IF Len(acc2.stderr) > Len(acc.stderr) THEN acc2
         ELSE walk_loop_break_on_error(Tail(entries), root, tree, acc2)

RECURSIVE walk_loop(_, _, _, _)
\* for entry in Walk::new(root_path) { .. }
walk_loop(entries, root, tree, acc) ==
    IF entries = <<>> THEN acc
    ELSE walk_loop(Tail(entries), root, tree,
                   walk_entry(Head(entries), root, tree, acc))

NoFilesWarning == "Warning: No readable files found in the codebase"

\* tokenize_codebase: the snapshot and what it wrote to stderr
tokenize_codebase(root, tree) ==
    LET acc == walk_loop(Walk(root, tree), root, tree,
                         [codebase |-> EmptyMap, stderr |-> <<>>])
    IN [result |-> Ok(acc.codebase),
        stderr |-> IF DOMAIN acc.codebase = {}
                   THEN Append(acc.stderr, NoFilesWarning)
                   ELSE acc.stderr]

-----------------------------------------------------------------------------
(* get_git_diff (main.rs 59-71) *)

\* the command line built at main.rs 60-67
git_command(path, staged) ==
    <<"git", "diff">> \o (IF staged THEN <<"--staged">> ELSE <<>>) \o <<path>>

\* git_output with a non-zero exit code treated as a failure
git_output_checks_status(world) ==
    IF ~world.launch THEN Err("io error")
    ELSE IF world.code # 0 THEN Err("exit status")
    ELSE from_utf8(world.stdout)

\* cmd.output()?, then String::from_utf8(output.stdout)?: the exit code of
\* the subprocess is never read
git_output(world) ==
    IF ~world.launch THEN Err("io error")
    ELSE from_utf8(world.stdout)

get_git_diff(path, staged, world) ==
    [argv |-> git_command(path, staged), result |-> git_output(world)]

-----------------------------------------------------------------------------
(* review_changes: the prompt (main.rs 115-137) *)

\* A TLA+ string cannot hold a grave accent: the code fence of the source
\* (three grave accents) is written ''' in the literals below.
PromptHead == "As a code reviewer, analyze the following changes:\n\n'''diff\n"
PromptDiffEnd == "\n'''\n\n"
PromptFiles == "Relevant files from the codebase for context:\n\n"
BlockOpen == ":\n'''\n"
BlockClose == "\n'''\n\n"
Checklist ==
    "\nPlease provide a detailed code review focusing on:\n"
    \o "1. Potential bugs or issues\n"
    \o "2. Code style and best practices\n"
    \o "3. Performance implications\n"
    \o "4. Security considerations\n"
    \o "5. Suggestions for improvement"

\* take yielding one element too many
take_one_more(seq, n) == SubSeq(seq, 1, Min(n + 1, Len(seq)))

\* Iterator::take
take(seq, n) == SubSeq(seq, 1, Min(n, Len(seq)))

\* the orders in which a HashMap may yield its keys
iter(m) ==
    {o \in [1..Cardinality(DOMAIN m) -> DOMAIN m] :
        \A i, j \in DOMAIN o : i # j => o[i] # o[j]}

RECURSIVE file_blocks(_, _)
\* the loop at main.rs 122-124, over the keys the iterator yields
file_blocks(keys, m) ==
    IF keys = <<>> THEN <<>>
    ELSE <<Head(keys), BlockOpen, m[Head(keys)], BlockClose>>
         \o file_blocks(Tail(keys), m)

\* The prompt as the sequence of the pieces pushed onto it; the String is
\* their concatenation.
build_prompt(d, m, order, max_files_context) ==
    <<PromptHead, d, PromptDiffEnd, PromptFiles>>
    \o file_blocks(take(order, max_files_context), m)
    \o <<Checklist>>

\* OllamaRequest and the URL it is posted to (main.rs 133-141)
ollama_request(tool, prompt) ==
    [url |-> tool.ollama_url \o "/api/generate",
     json |-> [model |-> tool.model, prompt |-> prompt, stream |-> FALSE]]

-----------------------------------------------------------------------------
(* review_changes: the response (main.rs 146-166) *)

\* The tokens a response body is made of: a newline, or a JSON text.
NL == "\n"
LineA == "{\"response\":\"A\",\"done\":false}"
LineB == "{\"response\":\"B\",\"done\":true}"
LineC == "{\"response\":\"C\",\"done\":false}"
LineErr == "{\"error\":\"model not found\"}"
LineNull == "{\"response\":null,\"done\":true}"
LineBad == "not json"
Tokens == {NL, LineA, LineB, LineC, LineErr, LineNull, LineBad}

\* a member of a JSON object: absent, null, a string or a boolean
JAbsent == [t |-> "absent", s |-> "", b |-> FALSE]
JNull == [t |-> "null", s |-> "", b |-> FALSE]
JString(s) == [t |-> "string", s |-> s, b |-> FALSE]
JBool(b) == [t |-> "bool", s |-> "", b |-> b]

\* the JSON value of a line of text, for the texts of Tokens; every other
\* text (the empty line, two tokens on one line) is no JSON value
parse_json(text) ==
    CASE text = LineA -> Ok([response |-> JString("A"), done |-> JBool(FALSE)])
      [] text = LineB -> Ok([response |-> JString("B"), done |-> JBool(TRUE)])
      [] text = LineC -> Ok([response |-> JString("C"), done |-> JBool(FALSE)])
      [] text = LineErr -> Ok([response |-> JAbsent, done |-> JAbsent])
      [] text = LineNull -> Ok([response |-> JNull, done |-> JBool(TRUE)])
      [] OTHER -> Err("syntax error")

\* Deserialize for OllamaResponse (main.rs 42-48): both fields #[serde(default)]
deserialize_response(obj) ==
    IF obj.response.t \notin {"absent", "string"} \/ obj.done.t \notin {"absent", "bool"}
    THEN Err("invalid type")
    ELSE Ok([response |-> IF obj.response.t = "absent" THEN "" ELSE obj.response.s,
             done |-> IF obj.done.t = "absent" THEN FALSE ELSE obj.done.b])

\* serde_json::from_str::<OllamaResponse>
from_str(line) ==
    IF parse_json(line).ok THEN deserialize_response(parse_json(line).val)
    ELSE parse_json(line)

\* index of the first newline of a token sequence, 0 if there is none
FirstNL(body) ==
    IF \E i \in 1..Len(body) : body[i] = NL
    THEN CHOOSE i \in 1..Len(body) :
            body[i] = NL /\ \A j \in 1..(i - 1) : body[j] # NL
    ELSE 0

RECURSIVE lines(_)
\* str::lines: the text between newlines; no empty line after a final newline
lines(body) ==
    IF body = <<>> THEN <<>>
    ELSE IF FirstNL(body) = 0 THEN <<Concat(body)>>
    ELSE <<Concat(SubSeq(body, 1, FirstNL(body) - 1))>>
         \o lines(SubSeq(body, FirstNL(body) + 1, Len(body)))

RECURSIVE parse_lines_no_break(_, _)
\* parse_lines without the break at main.rs 160-162
parse_lines_no_break(ls, full_response) ==
    IF ls = <<>> THEN full_response
    ELSE LET resp == from_str(Head(ls)) IN
         IF resp.ok
         THEN parse_lines_no_break(Tail(ls), full_response \o resp.val.response)
         ELSE parse_lines_no_break(Tail(ls), full_response)

RECURSIVE parse_lines_stop_on_error(_, _)
\* parse_lines ending the loop at a line that does not decode
parse_lines_stop_on_error(ls, full_response) ==
    IF ls = <<>> THEN full_response
    ELSE LET resp == from_str(Head(ls)) IN
         IF resp.ok
         THEN IF resp.val.done
              THEN full_response \o resp.val.response
              ELSE parse_lines_stop_on_error(Tail(ls),
                                             full_response \o resp.val.response)
         ELSE full_response

RECURSIVE parse_lines(_, _)
\* the loop at main.rs 157-164
parse_lines(ls, full_response) ==
    IF ls = <<>> THEN full_response
    ELSE LET resp == from_str(Head(ls)) IN
         IF resp.ok
         THEN IF resp.val.done
              THEN full_response \o resp.val.response
              ELSE parse_lines(Tail(ls), full_response \o resp.val.response)
         ELSE parse_lines(Tail(ls), full_response)

\* read_response with the status checked (error_for_status)
read_response_checks_status(world) ==
    IF world.status >= 400 THEN Err("status error")
    ELSE IF ~world.body_ok THEN Err("body decode error")
    ELSE Ok(parse_lines(lines(world.body), ""))

\* response.text().await?, then the fold; the status is read and never used
read_response(world) ==
    IF ~world.body_ok THEN Err("body decode error")
    ELSE Ok(parse_lines(lines(world.body), ""))

-----------------------------------------------------------------------------
(* The steps of main (main.rs 170-200) *)

Banner == "\nCode Review Results:"

Running == [status |-> "running", error |-> ""]
Success == [status |-> "ok", error |-> ""]
Failure(e) == [status |-> "err", error |-> e]

Step(name, ok) == [step |-> name, ok |-> ok]

\* Propagate with the error dropped and the run going on
Propagate_continue(result, next) ==
    /\ pc' = next
    /\ exit' = exit

\* Propagate with a failed step attempted again
Propagate_retry(result, next) ==
    /\ pc' = IF result.ok THEN next ELSE pc
    /\ exit' = exit

\* the `?` operator in main: an Err ends the run with that error
Propagate(result, next) ==
    /\ pc' = IF result.ok THEN next ELSE "failed"
    /\ exit' = IF result.ok THEN exit ELSE Failure(result.err)

\* main.rs 172-186: build the configuration, deserialize the Settings,
\* construct the tool
LoadSettings ==
    /\ pc = "load"
    /\ LET config == build(fs_config) IN
       /\ settings' =
            IF config.ok
            THEN LET s == settings_or_default(try_deserialize(config.val))
                 IN new(Some(s.ollama_url), Some(s.model))
            ELSE settings
       /\ steps' = Append(steps, Step("load", config.ok))
       /\ Propagate(config, "walk")
    /\ UNCHANGED <<args, fs_config, fs_tree, git, http, env_debug, codebase,
                   diff, spawned, requests, review, stderr, stdout>>

\* main.rs 189: reviewer.tokenize_codebase(root)?
TokenizeCodebase ==
    /\ pc = "walk"
    /\ LET out == tokenize_codebase(args.root_path, fs_tree) IN
       /\ codebase' = IF out.result.ok THEN out.result.val ELSE codebase
       /\ stderr' = stderr \o out.stderr
       /\ steps' = Append(steps, Step("walk", out.result.ok))
       /\ Propagate(out.result, "diff")
    /\ UNCHANGED <<args, fs_config, fs_tree, git, http, env_debug, settings,
                   diff, spawned, requests, review, stdout>>

\* main.rs 192: reviewer.get_git_diff(path, staged).await?
GetGitDiff ==
    /\ pc = "diff"
    /\ LET out == get_git_diff(args.diff_path, args.staged, git) IN
       /\ spawned' = Append(spawned, out.argv)
       /\ diff' = IF out.result.ok THEN out.result.val ELSE diff
       /\ steps' = Append(steps, Step("diff", out.result.ok))
       /\ Propagate(out.result, "post")
    /\ UNCHANGED <<args, fs_config, fs_tree, git, http, env_debug, settings,
                   codebase, requests, review, stderr, stdout>>

\* the outcome of client.post(..).json(..).send().await
send(world) == IF world.send_ok THEN Ok(world.status) ELSE Err("transport error")

\* main.rs 195, review_changes up to its first await (main.rs 115-143):
\* build the prompt, post the request
Post ==
    /\ pc = "post"
    /\ \E order \in iter(codebase) :
         requests' = Append(requests,
            ollama_request(settings,
               build_prompt(diff, codebase, order, args.max_files_context)))
    /\ steps' = Append(steps, Step("post", send(http).ok))
    /\ Propagate(send(http), "read")
    /\ UNCHANGED <<args, fs_config, fs_tree, git, http, env_debug, settings,
                   codebase, diff, spawned, review, stderr, stdout>>

\* Display of the status codes of Statuses
StatusText(status) ==
    CASE status = 200 -> "200 OK"
      [] status = 404 -> "404 Not Found"
      [] status = 500 -> "500 Internal Server Error"

\* the debug logging at main.rs 149-153, once the body has been read
debug_log(world, debug) ==
    IF world.body_ok /\ debug = "TRUE"
    THEN <<"Response status: " \o StatusText(world.status),
           "Raw response: " \o Concat(world.body)>>
    ELSE <<>>

\* review_changes from the response to its return (main.rs 146-166)
ReadBody ==
    /\ pc = "read"
    /\ LET text == read_response(http) IN
       /\ review' = IF text.ok THEN text.val ELSE review
       /\ stderr' = stderr \o debug_log(http, env_debug)
       /\ steps' = Append(steps, Step("read", text.ok))
       /\ Propagate(text, "print")
    /\ UNCHANGED <<args, fs_config, fs_tree, git, http, env_debug, settings,
                   codebase, diff, spawned, requests, stdout>>

\* main.rs 196-199
PrintReview ==
    /\ pc = "print"
    /\ stdout' = stdout \o <<Banner, review>>
    /\ steps' = Append(steps, Step("print", TRUE))
    /\ pc' = "done"
    /\ exit' = Success
    /\ UNCHANGED <<args, fs_config, fs_tree, git, http, env_debug, settings,
                   codebase, diff, spawned, requests, review, stderr>>

-----------------------------------------------------------------------------
(* Worlds *)

RootDir == << <<".">> >>
\* main.rs 195
MainMaxFiles == 5
\* the arguments main passes (main.rs 189, 192, 195)
MainArgs == [root_path |-> RootDir, diff_path |-> ".", staged |-> FALSE,
             max_files_context |-> MainMaxFiles]

\* sequences over S of length at most n
SeqUpTo(S, n) == UNION {[1..k -> S] : k \in 0..n}

QuietGit == [launch |-> TRUE, code |-> 0, stdout |-> <<>>]
QuietHttp == [send_ok |-> TRUE, status |-> 200, body_ok |-> TRUE, body |-> <<LineB>>]

\* OS names of the entries: a, s/b, and two names that are not valid UTF-8
EntryNames == << << <<"a">> >>, << <<"s">>, <<"b">> >>,
                 << <<"n", "<FF>">> >>, << <<"n", "<FE>">> >> >>
EntryKinds == {"text", "empty", "binary", "denied", "ignored", "dir", "walk_err"}
EntryText == <<"fn a() {}", "fn b() {}", "one", "two">>
Entries ==
    {Entry(EntryNames[i], k, IF k = "empty" THEN <<>> ELSE <<EntryText[i]>>) :
        i \in DOMAIN EntryNames, k \in EntryKinds}

\* the trees of at most n entries, no path twice
Trees(n) ==
    {t \in SeqUpTo(Entries, n) :
        \A i, j \in DOMAIN t : i # j => t[i].name # t[j].name}

E(i, k) == Entry(EntryNames[i], k, <<EntryText[i]>>)

MainTrees ==
    {<<>>, <<E(1, "text")>>, <<E(1, "binary"), E(2, "text")>>,
     <<E(3, "text"), E(4, "text")>>,
     <<E(1, "walk_err"), E(2, "dir"), E(3, "ignored")>>}

MainConfigs ==
    {<<NoFile, NoFile>>, <<BadFile, NoFile>>, <<NoFile, BadFile>>,
     <<NoFile, GoodFile(StrVal("http://box:1"), NoKey)>>,
     <<GoodFile(NoKey, StrVal("m1")), GoodFile(NoKey, StrVal("m2"))>>,
     <<NoFile, GoodFile(TableVal, StrVal("m1"))>>,
     <<GoodFile(StrVal("http://box:1"), ArrayVal), NoFile>>,
     <<NoFile, GoodFile(NoKey, IntVal("5"))>>,
     <<GoodFile(StrVal("http://box:1"), NilVal), NoFile>>,
     <<GoodFile(NoKey, StrVal("m1")), GoodFile(NoKey, NilVal)>>,
     <<GoodFile(BoolVal("true"), FloatVal("1.5")), NoFile>>}

StdoutChunks == {"+a\n", "-b\n", "<FF>"}
ExitCodes == {0, 1, 128}
Gits(n) ==
    {[launch |-> FALSE, code |-> 0, stdout |-> <<>>]} \cup
    {[launch |-> TRUE, code |-> c, stdout |-> o] :
        c \in ExitCodes, o \in SeqUpTo(StdoutChunks, n)}

MainGits ==
    {[launch |-> FALSE, code |-> 0, stdout |-> <<>>], QuietGit,
     [launch |-> TRUE, code |-> 0, stdout |-> <<"+a\n">>],
     [launch |-> TRUE, code |-> 1, stdout |-> <<"+a\n">>],
     [launch |-> TRUE, code |-> 128, stdout |-> <<>>],
     [launch |-> TRUE, code |-> 0, stdout |-> <<"+a\n", "<FF>">>]}

Statuses == {200, 404, 500}
Https(statuses, bodies) ==
    {[send_ok |-> FALSE, status |-> 0, body_ok |-> FALSE, body |-> <<>>]} \cup
    {[send_ok |-> TRUE, status |-> st, body_ok |-> FALSE, body |-> <<>>] :
        st \in statuses} \cup
    {[send_ok |-> TRUE, status |-> st, body_ok |-> TRUE, body |-> b] :
        st \in statuses, b \in bodies}

MainBodies ==
    {<<>>, <<LineErr>>, <<LineErr, NL>>,
     <<LineA, NL, LineB, NL, LineC, NL>>,
     <<LineA, NL, LineBad, NL, LineC>>}

-----------------------------------------------------------------------------
(* Specifications *)

\* Settings that main has not loaded yet
NoSettings == [ollama_url |-> "", model |-> ""]

\* the program's own variables before main assigns them
Fresh ==
    /\ codebase = EmptyMap
    /\ diff = ""
    /\ spawned = <<>>
    /\ requests = <<>>
    /\ review = ""
    /\ stderr = <<>>
    /\ stdout = <<>>
    /\ steps = <<>>
    /\ exit = Running

\* a run of main in a world
Init ==
    /\ pc = "load"
    /\ args = MainArgs
    /\ fs_config \in MainConfigs
    /\ fs_tree \in MainTrees
    /\ git \in MainGits
    /\ http \in Https(Statuses, MainBodies)
    /\ env_debug \in {"", "TRUE"}
    /\ settings = NoSettings
    /\ Fresh

Next ==
    \/ LoadSettings
    \/ TokenizeCodebase
    \/ GetGitDiff
    \/ Post
    \/ ReadBody
    \/ PrintReview

Spec == Init /\ [][Next]_vars

\* tokenize_codebase on every tree and root
InitWalk ==
    /\ pc = "walk"
    /\ \E r \in {RootDir, << <<"proj">>, <<"x">> >>} :
         args = [MainArgs EXCEPT !.root_path = r]
    /\ fs_config = <<NoFile, NoFile>>
    /\ fs_tree \in Trees(MaxEntries)
    /\ git = QuietGit
    /\ http = QuietHttp
    /\ env_debug = ""
    /\ settings = new(None, None)
    /\ Fresh

NextWalk == TokenizeCodebase

SpecWalk == InitWalk /\ [][NextWalk]_vars

\* get_git_diff on every path, flag and subprocess outcome
InitDiff ==
    /\ pc = "diff"
    /\ \E p \in {".", "src"}, s \in BOOLEAN :
         args = [MainArgs EXCEPT !.diff_path = p, !.staged = s]
    /\ fs_config = <<NoFile, NoFile>>
    /\ fs_tree = <<>>
    /\ git \in Gits(MaxStdout)
    /\ http = QuietHttp
    /\ env_debug = ""
    /\ settings = new(None, None)
    /\ Fresh

NextDiff == GetGitDiff

SpecDiff == InitDiff /\ [][NextDiff]_vars

SnapshotKeys == {"a", "s/b", "c"}
SnapshotTexts == {"", "fn a() {}", "x"}
Snapshots == UNION {[K -> SnapshotTexts] : K \in SUBSET SnapshotKeys}

\* the prompt of review_changes on every diff, snapshot and file count
InitPrompt ==
    /\ pc = "post"
    /\ \E n \in 0..MaxN : args = [MainArgs EXCEPT !.max_files_context = n]
    /\ fs_config = <<NoFile, NoFile>>
    /\ fs_tree = <<>>
    /\ git = QuietGit
    /\ http = QuietHttp
    /\ env_debug = ""
    /\ codebase \in Snapshots
    /\ diff \in {"", "+a\n"}
    /\ settings = new(None, None)
    /\ spawned = <<>>
    /\ requests = <<>>
    /\ review = ""
    /\ stderr = <<>>
    /\ stdout = <<>>
    /\ steps = <<>>
    /\ exit = Running

NextPrompt == Post

SpecPrompt == InitPrompt /\ [][NextPrompt]_vars

\* the response handling of review_changes on every reply
InitParse ==
    /\ pc = "post"
    /\ args = MainArgs
    /\ fs_config = <<NoFile, NoFile>>
    /\ fs_tree = <<>>
    /\ git = QuietGit
    /\ http \in Https({200}, SeqUpTo(Tokens, MaxBody))
    /\ env_debug = "TRUE"
    /\ settings = new(None, None)
    /\ Fresh

NextParse == Post \/ ReadBody

SpecParse == InitParse /\ [][NextParse]_vars

-----------------------------------------------------------------------------
(* Properties of the response fold (SpecParse) *)

Range(f) == {f[i] : i \in DOMAIN f}

Decodes(line) == from_str(line).ok
IsDone(line) == Decodes(line) /\ from_str(line).val.done
ChunkOf(line) == IF Decodes(line) THEN from_str(line).val.response ELSE ""

\* the position of the first decodable line whose done flag is set, or the
\* last position when there is none
StopAt(ls) ==
    IF \E i \in 1..Len(ls) : IsDone(ls[i])
    THEN CHOOSE i \in 1..Len(ls) :
            IsDone(ls[i]) /\ \A j \in 1..(i - 1) : ~IsDone(ls[j])
    ELSE Len(ls)

\* the chunks of the decodable lines up to and including that position, joined
TextUpToDone(ls) == Concat([i \in 1..StopAt(ls) |-> ChunkOf(ls[i])])

\* C1: the text review_changes returns is the concatenation, in body order, of
\* the chunks of the decodable lines up to and including the first one whose
\* done flag is true; nothing of a later line appears in it.
C1_FoldStopsAtFirstDone ==
    pc = "print" => review = TextUpToDone(lines(http.body))

\* lines A/not-done, B/done, C/not-done have been folded to "AB"
C1_Witness ==
    /\ pc = "print"
    /\ http.body = <<LineA, NL, LineB, NL, LineC>>
    /\ review = "AB"

\* C2: a line that does not decode is skipped: once the body has been read as
\* text the call returns Ok, and the text is what the decodable lines alone
\* would give, whatever number of malformed lines lies between them.
C2_MalformedLinesSkipped ==
    (steps # <<>> /\ steps[Len(steps)].step = "read" /\ http.body_ok) =>
        /\ steps[Len(steps)].ok
        /\ pc = "print"
        /\ exit = Running
        /\ review = TextUpToDone(SelectSeq(lines(http.body), Decodes))

\* a malformed line between two valid fragments: both fragments are joined
C2_Witness ==
    /\ pc = "print"
    /\ http.body = <<LineA, NL, LineBad, NL, LineC>>
    /\ review = "AC"

-----------------------------------------------------------------------------
(* Properties of the prompt (SpecPrompt) *)

\* the prompt of the request that was posted
PostedPrompt == requests[1].json.prompt

\* the positions at which a file block opens
BlocksOf(p) == {i \in 2..(Len(p) - 2) : p[i] = BlockOpen}

\* C3: for every diff, snapshot and maximum file count N the prompt holds the
\* diff, the five-item checklist and exactly min(N, number of snapshot
\* entries) file blocks, never more than N, each a distinct path of the
\* snapshot with the whole content of that path.
C3_PromptShape ==
    requests # <<>> =>
        LET p == PostedPrompt
            B == BlocksOf(p)
        IN /\ SubSeq(p, 1, 4) = <<PromptHead, diff, PromptDiffEnd, PromptFiles>>
           /\ p[Len(p)] = Checklist
           /\ Len(p) = 5 + 4 * Cardinality(B)
           /\ Cardinality(B) =
                Min(args.max_files_context, Cardinality(DOMAIN codebase))
           /\ Cardinality(B) <= args.max_files_context
           /\ \A i \in B :
                /\ p[i - 1] \in DOMAIN codebase
                /\ p[i + 1] = codebase[p[i - 1]]
                /\ p[i + 2] = BlockClose
           /\ \A i, j \in B : i # j => p[i - 1] # p[j - 1]

\* a snapshot of three files and N = 2: two blocks
C3_Witness ==
    /\ requests # <<>>
    /\ args.max_files_context = 2
    /\ Cardinality(DOMAIN codebase) = 3
    /\ Cardinality(BlocksOf(PostedPrompt)) = 2

-----------------------------------------------------------------------------
(* Properties of get_git_diff (SpecDiff) *)

\* the step that get_git_diff made, once it has returned
DiffStep == steps[Len(steps)]

\* the command line: --staged exactly when the flag is set
ArgvAsClaimed ==
    /\ spawned[1][1] = "git"
    /\ spawned[1][2] = "diff"
    /\ spawned[1][Len(spawned[1])] = args.diff_path
    /\ ("--staged" \in Range(spawned[1])) = args.staged
    /\ Len(spawned[1]) = IF args.staged THEN 4 ELSE 3

\* C6 as stated: get_git_diff fails if git cannot be launched and returns the
\* standard output of every command that was launched, whatever the exit code.
C6_Original ==
    spawned # <<>> =>
        /\ Len(spawned) = 1
        /\ ArgvAsClaimed
        /\ ~git.launch => (~DiffStep.ok /\ pc = "failed")
        /\ git.launch => (DiffStep.ok /\ pc = "post" /\ diff = Concat(git.stdout))

\* C6, amended: get_git_diff fails if git cannot be launched or if its
\* standard output is not valid UTF-8; for every launched command whose
\* output is valid UTF-8 it returns that output verbatim, whatever the exit
\* code, the empty string included; --staged is passed exactly when the flag
\* is set.
C6_StdoutReturnedIfUtf8 ==
    spawned # <<>> =>
        /\ Len(spawned) = 1
        /\ ArgvAsClaimed
        /\ ~git.launch =>
              (~DiffStep.ok /\ pc = "failed" /\ exit = Failure("io error"))
        /\ (git.launch /\ Range(git.stdout) \cap InvalidBytes = {}) =>
              (DiffStep.ok /\ pc = "post" /\ exit = Running
               /\ diff = Concat(git.stdout))
        /\ (git.launch /\ Range(git.stdout) \cap InvalidBytes # {}) =>
              (~DiffStep.ok /\ pc = "failed" /\ exit = Failure("FromUtf8Error"))

\* git exited with code 1 and wrote a diff, --staged was passed: the diff is
\* returned
C6_Witness ==
    /\ pc = "post"
    /\ git.code = 1
    /\ args.staged
    /\ spawned = << <<"git", "diff", "--staged", "src">> >>
    /\ diff = "+a\n-b\n"

-----------------------------------------------------------------------------
(* Properties of tokenize_codebase (SpecWalk) *)

\* the regular, non-ignored files of the tree that can be read as text
ReadableFiles ==
    {i \in DOMAIN fs_tree :
        /\ fs_tree[i].file_type = "file"
        /\ ~fs_tree[i].ignored
        /\ fs_tree[i].walk_ok
        /\ fs_tree[i].open_ok
        /\ Range(fs_tree[i].bytes) \cap InvalidBytes = {}}

\* the entries the walk yields and cannot access or read
FailingEntries ==
    {i \in DOMAIN fs_tree :
        /\ ~fs_tree[i].ignored
        /\ \/ ~fs_tree[i].walk_ok
           \/ /\ fs_tree[i].file_type = "file"
              /\ \/ ~fs_tree[i].open_ok
                 \/ Range(fs_tree[i].bytes) \cap InvalidBytes # {}}

\* the key of an entry: its path relative to the root, as text
KeyOf(i) == JoinPath(fs_tree[i].name)

\* C7 as stated: the key set of the snapshot is exactly the regular,
\* non-ignored files under the root that can be read as text, one key per
\* file, each mapped to the content of its file; none is missing.
C7_Original ==
    pc # "walk" =>
        /\ DOMAIN codebase = {KeyOf(i) : i \in ReadableFiles}
        /\ Cardinality(DOMAIN codebase) = Cardinality(ReadableFiles)
        /\ \A i \in ReadableFiles : codebase[KeyOf(i)] = Concat(fs_tree[i].bytes)

\* C8: tokenize_codebase never fails; a file that cannot be read and a path
\* that cannot be accessed each cost one warning and nothing else, the
\* entries after them are still visited, and the no-readable-files warning is
\* emitted exactly when the returned mapping is empty.
C8_WalkContainsFailures ==
    pc # "walk" =>
        /\ pc = "diff"
        /\ exit = Running
        /\ steps = <<Step("walk", TRUE)>>
        /\ (NoFilesWarning \in Range(stderr)) <=> (DOMAIN codebase = {})
        /\ (DOMAIN codebase = {}) <=> (ReadableFiles = {})
        /\ Cardinality({i \in DOMAIN stderr : stderr[i] # NoFilesWarning})
              = Cardinality(FailingEntries)
        /\ \A i \in DOMAIN stderr :
              stderr[i] = NoFilesWarning => i = Len(stderr)
        /\ \A i \in ReadableFiles : KeyOf(i) \in DOMAIN codebase

\* a file that cannot be read comes before a readable one: one warning, and
\* the readable one is in the snapshot
C8_Witness ==
    /\ pc = "diff"
    /\ \E i, j \in DOMAIN fs_tree :
          /\ i < j
          /\ i \in FailingEntries
          /\ j \in ReadableFiles
          /\ KeyOf(j) \in DOMAIN codebase
    /\ Len(stderr) = 1

-----------------------------------------------------------------------------
(* Properties of a run of main (Spec) *)

StepOrder == <<"load", "walk", "diff", "post", "read", "print">>

Attempts(name) == Cardinality({i \in DOMAIN steps : steps[i].step = name})
Succeeded(name) == \E i \in DOMAIN steps : steps[i] = Step(name, TRUE)

\* C4 as stated: loading the Settings never aborts the run; without a
\* configuration file the Settings are the defaults, and with a file that
\* does not parse or does not deserialize the run goes on to the walk with
\* the defaults.
C4_Original ==
    pc # "load" =>
        /\ steps[1] = Step("load", TRUE)
        /\ (\A i \in 1..2 : ~fs_config[i].found) => settings = DefaultSettings
        /\ (\E i \in 1..2 : fs_config[i].found /\ ~fs_config[i].parsed) =>
              settings = DefaultSettings
        /\ (build(fs_config).ok /\ ~try_deserialize(build(fs_config).val).ok) =>
              settings = DefaultSettings

\* C5: the steps run in the order load, walk, diff, post and read, print,
\* one after the other; a step that fails is the last step of the run, which
\* then ends in an error without the banner; the banner is printed only when
\* the walk, the diff and the HTTP call all succeeded.
C5_StepsInOrderAbortOnFailure ==
    /\ Len(steps) <= Len(StepOrder)
    /\ \A i \in DOMAIN steps : steps[i].step = StepOrder[i]
    /\ \A i \in DOMAIN steps : i < Len(steps) => steps[i].ok
    /\ (steps # <<>> /\ ~steps[Len(steps)].ok) =>
          (pc = "failed" /\ exit.status = "err" /\ Banner \notin Range(stdout))
    /\ pc = "failed" <=> exit.status = "err"
    /\ exit.status = "err" => (steps # <<>> /\ ~steps[Len(steps)].ok)
    /\ Banner \in Range(stdout) =>
          (Succeeded("walk") /\ Succeeded("diff") /\ Succeeded("post")
           /\ Succeeded("read"))
    /\ exit.status = "ok" => (pc = "done" /\ stdout = <<Banner, review>>)

\* the diff failed: the run is over, nothing was posted or printed
C5_Witness ==
    /\ pc = "failed"
    /\ steps = <<Step("load", TRUE), Step("walk", TRUE), Step("diff", FALSE)>>
    /\ requests = <<>>
    /\ stdout = <<>>

\* C9: at most one POST is issued in a run, to <endpoint>/api/generate, only
\* after the walk and the diff have succeeded; no step is attempted twice.
C9_OnePostNoRetry ==
    /\ Len(requests) <= 1
    /\ Len(requests) = Attempts("post")
    /\ requests # <<>> =>
          /\ Succeeded("walk")
          /\ Succeeded("diff")
          /\ requests[1].url = settings.ollama_url \o "/api/generate"
    /\ Len(spawned) <= 1
    /\ \A name \in Range(StepOrder) : Attempts(name) <= 1

\* the POST failed and the run ended with that one request
C9_Witness ==
    /\ pc = "failed"
    /\ ~http.send_ok
    /\ Len(requests) = 1
    /\ Attempts("post") = 1

\* C10: the status code is never inspected: whatever the status, a body that
\* can be read as text gives Ok with the text folded from it; an object
\* without `response` and `done` decodes to an empty, not-done fragment, so
\* an error reply of one such object gives the empty review, the banner is
\* printed and the run succeeds.
C10_StatusIgnored ==
    /\ from_str(LineErr) = Ok([response |-> "", done |-> FALSE])
    /\ (Attempts("read") = 1 /\ http.body_ok) =>
          /\ Succeeded("read")
          /\ pc \in {"print", "done"}
          /\ review = TextUpToDone(lines(http.body))
    /\ (pc = "done" /\ lines(http.body) = <<LineErr>>) =>
          (stdout = <<Banner, "">> /\ exit = Success)

\* a 500 reply whose body is one error object: the banner and an empty review
C10_Witness ==
    /\ pc = "done"
    /\ http.status = 500
    /\ http.body = <<LineErr>>
    /\ stdout = <<Banner, "">>
    /\ exit = Success

====
